---- MODULE Spec2Model ----
(***************************************************************************)
(* Model of android::Fps, FpsRange, FpsRanges and the fps_approx_ops        *)
(* operators of services/surfaceflinger/Scheduler/include/scheduler/Fps.h.  *)
(*                                                                          *)
(* The header is a library of pure functions over `float` and `nsecs_t`     *)
(* (int64_t).  Both are modelled bit-exactly: a float is a sign, a 24-bit   *)
(* significand and an exponent and every float operation rounds to nearest, *)
(* ties to even, as IEEE-754 binary32 does; a 64-bit integer is an          *)
(* arbitrary-size natural (the integers of TLC are 32 bits wide)            *)
(* with a sign, and leaving the 64-bit range is undefined behaviour.        *)
(***************************************************************************)
EXTENDS Integers, Sequences, FiniteSets, TLC

(***************************************************************************)
(* Arbitrary-size naturals: little-endian sequences of limbs in base 2^15,  *)
(* without high zero limbs (zero is the empty sequence).                    *)
(***************************************************************************)
Base == 2^15

Rest(x) == IF x = <<>> THEN <<>> ELSE Tail(x)

Low(x) == IF x = <<>> THEN 0 ELSE Head(x)

RECURSIVE BigNorm(_)
BigNorm(x) ==
    IF x = <<>> THEN <<>>
    ELSE IF x[Len(x)] = 0 THEN BigNorm(SubSeq(x, 1, Len(x) - 1))
    ELSE x

RECURSIVE BigOfNat(_)
BigOfNat(n) == IF n = 0 THEN <<>> ELSE <<n % Base>> \o BigOfNat(n \div Base)

RECURSIVE BigAddC(_, _, _)
BigAddC(x, y, c) ==
    IF x = <<>> /\ y = <<>> THEN (IF c = 0 THEN <<>> ELSE <<c>>)
    ELSE LET s == Low(x) + Low(y) + c
         IN  <<s % Base>> \o BigAddC(Rest(x), Rest(y), s \div Base)

BigAdd(x, y) == BigAddC(x, y, 0)

\* x - y - b for x >= y + b, before normalisation
RECURSIVE BigSubB(_, _, _)
BigSubB(x, y, b) ==
    IF x = <<>> THEN <<>>
    ELSE LET d == Low(x) - Low(y) - b
         IN  IF d < 0 THEN <<d + Base>> \o BigSubB(Rest(x), Rest(y), 1)
             ELSE <<d>> \o BigSubB(Rest(x), Rest(y), 0)

BigSub(x, y) == BigNorm(BigSubB(x, y, 0))

\* x * d + c for a limb d
RECURSIVE BigMulLimb(_, _, _)
BigMulLimb(x, d, c) ==
    IF x = <<>> THEN (IF c = 0 THEN <<>> ELSE <<c>>)
    ELSE LET p == Head(x) * d + c
         IN  <<p % Base>> \o BigMulLimb(Tail(x), d, p \div Base)

RECURSIVE BigMul(_, _)
BigMul(x, y) ==
    IF x = <<>> \/ y = <<>> THEN <<>>
    ELSE BigNorm(BigAdd(BigMulLimb(x, Head(y), 0), <<0>> \o BigMul(x, Tail(y))))

\* -1, 0, 1 as x < y, x = y, x > y
RECURSIVE BigCmp(_, _)
BigCmp(x, y) ==
    IF Len(x) # Len(y) THEN (IF Len(x) < Len(y) THEN -1 ELSE 1)
    ELSE IF x = <<>> THEN 0
    ELSE LET n == Len(x)
         IN  IF x[n] # y[n] THEN (IF x[n] < y[n] THEN -1 ELSE 1)
             ELSE BigCmp(SubSeq(x, 1, n - 1), SubSeq(y, 1, n - 1))

BigLt(x, y) == BigCmp(x, y) = -1

BigLe(x, y) == BigCmp(x, y) # 1

\* number of bits of a natural below 2^31
RECURSIVE BitLen(_)
BitLen(n) == IF n = 0 THEN 0 ELSE 1 + BitLen(n \div 2)

BigBitLen(x) == IF x = <<>> THEN 0 ELSE 15 * (Len(x) - 1) + BitLen(x[Len(x)])

\* x * 2^k
BigShl(x, k) ==
    IF x = <<>> THEN <<>>
    ELSE [i \in 1..(k \div 15) |-> 0] \o BigMulLimb(x, 2^(k % 15), 0)

\* floor(x / 2^k)
BigShr(x, k) ==
    LET q == k \div 15
        r == k % 15
        y == IF q >= Len(x) THEN <<>> ELSE SubSeq(x, q + 1, Len(x))
        up(i) == IF i < Len(y) THEN y[i + 1] ELSE 0
    IN  BigNorm([i \in 1..Len(y) |-> (y[i] \div 2^r) + (up(i) % 2^r) * 2^(15 - r)])

\* x mod 2^k
BigLowBits(x, k) ==
    LET q == k \div 15
        r == k % 15
    IN  IF q >= Len(x) THEN x
        ELSE BigNorm(SubSeq(x, 1, q) \o <<x[q + 1] % 2^r>>)

\* the value of a natural below 2^31
RECURSIVE BigToNat(_)
BigToNat(x) == IF x = <<>> THEN 0 ELSE Head(x) + Base * BigToNat(Tail(x))

BigPow2(k) == BigShl(<<1>>, k)

(***************************************************************************)
(* IEEE-754 binary32 (`float`).  A finite value is (-1)^s * m * 2^e with    *)
(* either 2^23 <= m < 2^24 and -149 <= e <= 104 (normal), or m < 2^23 and   *)
(* e = -149 (subnormal and zero), so every value has one representation.    *)
(***************************************************************************)
MantBits == 24

MinExp == -149

MaxExp == 104

Fin(s, m, e) == [k |-> "fin", s |-> s, m |-> m, e |-> e]

FZero == Fin(0, 0, MinExp)

FInf(s) == [k |-> "inf", s |-> s, m |-> 0, e |-> 0]

FNaN == [k |-> "nan", s |-> 0, m |-> 0, e |-> 0]

IsFinite(x) == x.k = "fin"

IsZero(x) == x.k = "fin" /\ x.m = 0

Max(i, j) == IF i >= j THEN i ELSE j

\* n with its lowest bit set when inexact: a sticky bit
Jam(n, inexact) == IF inexact /\ n % 2 = 0 THEN n + 1 ELSE n

\* The float nearest to (-1)^s * R * 2^e, ties to even, for 0 <= R < 2^31.
RoundPack(s, R, e) ==
    IF R = 0 THEN Fin(s, 0, MinExp)
    ELSE LET sh == Max(BitLen(R) - MantBits, MinExp - e)
             q == IF sh <= 0 THEN R * 2^(-sh) ELSE IF sh >= 31 THEN 0 ELSE R \div 2^sh
             up == IF sh <= 0 \/ sh >= 32 THEN 0
                   ELSE IF sh = 31 THEN (IF R > 2^30 THEN 1 ELSE 0)
                   ELSE LET rem == R % 2^sh
                            half == 2^(sh - 1)
                        IN  IF rem > half \/ (rem = half /\ q % 2 = 1) THEN 1 ELSE 0
             m1 == q + up
             m2 == IF m1 = 2^MantBits THEN 2^(MantBits - 1) ELSE m1
             e2 == IF m1 = 2^MantBits THEN e + sh + 1 ELSE e + sh
         IN  IF m2 = 0 THEN Fin(s, 0, MinExp)
             ELSE IF e2 > MaxExp THEN FInf(s)
             ELSE Fin(s, m2, e2)

\* a nonzero finite float with its significand scaled into [2^23, 2^24)
RECURSIVE Normal(_, _)
Normal(m, e) == IF m >= 2^(MantBits - 1) THEN <<m, e>> ELSE Normal(2 * m, e - 1)

\* x < y, x == y on floats (false on NaN; -0 equals +0)
FMagLt(x, y) == x.e < y.e \/ (x.e = y.e /\ x.m < y.m)

FLt(x, y) ==
    IF x.k = "nan" \/ y.k = "nan" THEN FALSE
    ELSE IF IsZero(x) /\ IsZero(y) THEN FALSE
    ELSE IF x.s # y.s THEN x.s = 1
    ELSE LET lt == IF x.k = "inf" THEN FALSE
                   ELSE IF y.k = "inf" THEN TRUE
                   ELSE FMagLt(x, y)
             gt == IF y.k = "inf" THEN FALSE
                   ELSE IF x.k = "inf" THEN TRUE
                   ELSE FMagLt(y, x)
         IN  IF x.s = 0 THEN lt ELSE gt

FEq(x, y) ==
    IF x.k = "nan" \/ y.k = "nan" THEN FALSE
    ELSE (IsZero(x) /\ IsZero(y)) \/ x = y

FLe(x, y) == FLt(x, y) \/ FEq(x, y)

\* std::abs
FAbs(x) == [x EXCEPT !.s = 0]

\* x / y, rounded
FDiv(x, y) ==
    LET s == (x.s + y.s) % 2
    IN  IF x.k = "nan" \/ y.k = "nan" THEN FNaN
        ELSE IF x.k = "inf" THEN (IF y.k = "inf" THEN FNaN ELSE FInf(s))
        ELSE IF y.k = "inf" THEN Fin(s, 0, MinExp)
        ELSE IF y.m = 0 THEN (IF x.m = 0 THEN FNaN ELSE FInf(s))
        ELSE IF x.m = 0 THEN Fin(s, 0, MinExp)
        ELSE LET a == Normal(x.m, x.e)
                 b == Normal(y.m, y.e)
                 d == b[1]
                 \* long division, 7 quotient bits a step: floor(a * 2^28 / b)
                 q0 == a[1] \div d
                 r0 == a[1] % d
                 q1 == q0 * 128 + (r0 * 128) \div d
                 r1 == (r0 * 128) % d
                 q2 == q1 * 128 + (r1 * 128) \div d
                 r2 == (r1 * 128) % d
                 q3 == q2 * 128 + (r2 * 128) \div d
                 r3 == (r2 * 128) % d
                 q4 == q3 * 128 + (r3 * 128) \div d
                 r4 == (r3 * 128) % d
             IN  RoundPack(s, Jam(2 * q4, r4 # 0), a[2] - b[2] - 29)

\* x - y, rounded, for x, y >= 0 (a frequency is never negative)
FSub(x, y) ==
    IF x.k = "nan" \/ y.k = "nan" THEN FNaN
    ELSE IF x.k = "inf" THEN (IF y.k = "inf" THEN FNaN ELSE FInf(0))
    ELSE IF y.k = "inf" THEN FInf(1)
    ELSE IF x.m = y.m /\ x.e = y.e THEN FZero
    ELSE LET neg == FMagLt(x, y)
             big == IF neg THEN y ELSE x
             small == IF neg THEN x ELSE y
             s == IF neg THEN 1 ELSE 0
             d == big.e - small.e
         IN  IF d <= 6 THEN RoundPack(s, big.m * 2^d - small.m, small.e)
             ELSE LET sh == d - 6
                      fl == IF sh >= MantBits THEN 0 ELSE small.m \div 2^sh
                      inexact == IF sh >= MantBits THEN small.m # 0
                                 ELSE small.m % 2^sh # 0
                  IN  RoundPack(s, big.m * 64 - Jam(fl, inexact), big.e - 6)

\* the float nearest to (-1)^s * x * 2^e for a natural x of any size
FloatOfScaled(s, x, e) ==
    LET n == BigBitLen(x)
    IN  IF n <= 30 THEN RoundPack(s, BigToNat(x), e)
        ELSE RoundPack(s, Jam(BigToNat(BigShr(x, n - 30)),
                              BigLowBits(x, n - 30) # <<>>), e + n - 30)

\* the integer part of a finite float's magnitude, and whether it has a fraction
BigTrunc(x) ==
    IF x.e >= 0 THEN BigShl(BigOfNat(x.m), x.e)
    ELSE IF -x.e >= MantBits THEN <<>>
    ELSE BigOfNat(x.m \div 2^(-x.e))

HasFraction(x) ==
    IF x.e >= 0 THEN FALSE
    ELSE IF -x.e >= MantBits THEN x.m # 0
    ELSE x.m % 2^(-x.e) # 0

\* x >= 0.5 for a finite float 0 <= x < 1
AtLeastHalf(x) == x.m # 0 /\ ~FMagLt(x, Fin(0, 2^(MantBits - 1), -MantBits))

\* n <= x and x < n for a natural n and a finite float x >= 0, exactly
BigLeFloat(n, x) ==
    IF x.e >= 0 THEN BigLe(n, BigShl(BigOfNat(x.m), x.e))
    ELSE BigLe(BigShl(n, -x.e), BigOfNat(x.m))

FloatLtBig(x, n) ==
    IF x.e >= 0 THEN BigLt(BigShl(BigOfNat(x.m), x.e), n)
    ELSE BigLt(BigOfNat(x.m), BigShl(n, -x.e))

\* the fraction of a finite float's magnitude: again a float, exactly
Fraction(x) ==
    IF x.e >= 0 THEN FZero
    ELSE IF -x.e >= MantBits THEN FAbs(x)
    ELSE RoundPack(0, x.m % 2^(-x.e), x.e)

(***************************************************************************)
(* nsecs_t (int64_t) and unsigned (32 bits).  An nsecs_t is a sign and a    *)
(* magnitude; an unsigned is a natural below 2^32.                          *)
(***************************************************************************)
Nsecs(neg, mag) == [neg |-> neg /\ mag # <<>>, mag |-> mag]

NsecsOfNat(n) == Nsecs(FALSE, BigOfNat(n))

Int64Max == Nsecs(FALSE, BigSub(BigPow2(63), <<1>>))

Int64Min == Nsecs(TRUE, BigPow2(63))

UintMax == BigSub(BigPow2(32), <<1>>)

InInt64(neg, mag) == IF neg THEN BigLe(mag, Int64Min.mag) ELSE BigLe(mag, Int64Max.mag)

\* the 64-bit two's-complement value congruent to (-1)^neg * mag modulo 2^64
WrapInt64(neg, mag) ==
    LET low == BigLowBits(mag, 64)
        u == IF neg /\ low # <<>> THEN BigSub(BigPow2(64), low) ELSE low
    IN  IF BigLt(u, BigPow2(63)) THEN Nsecs(FALSE, u)
        ELSE Nsecs(TRUE, BigSub(BigPow2(64), u))

\* An evaluation's outcome: its value, and whether it ran into undefined
\* behaviour (ub), in which case the value is one a build can produce, or
\* none when the build traps (trap).
Outcome(val, ub, trap) == [val |-> val, ub |-> ub, trap |-> trap]

Defined(val) == Outcome(val, FALSE, FALSE)

\* static_cast<nsecs_t>(float): truncation toward zero.  A value outside
\* the range of int64_t (also an infinity or a NaN) is undefined behaviour:
\* cvttss2si yields INT64_MIN, fcvtzs saturates.
StaticCastNsecs(x) ==
    IF IsFinite(x) /\ InInt64(x.s = 1, BigTrunc(x))
    THEN {Defined(Nsecs(x.s = 1, BigTrunc(x)))}
    ELSE {Outcome(Int64Min, TRUE, FALSE),
          Outcome(IF x.k = "nan" THEN Nsecs(FALSE, <<>>)
                  ELSE IF x.s = 1 THEN Int64Min ELSE Int64Max, TRUE, FALSE)}

\* static_cast<float>(nsecs_t), the conversion in `1e9f / period`
FloatOfNsecs(p) == FloatOfScaled(IF p.neg THEN 1 ELSE 0, p.mag, 0)

\* period * static_cast<nsecs_t>(divisor) on int64_t.  Signed overflow is
\* undefined behaviour: the product wraps, or a build with overflow
\* trapping aborts.
MulNsecs(p, d) ==
    LET mag == BigMul(p.mag, d)
    IN  IF InInt64(p.neg, mag) THEN {Defined(Nsecs(p.neg, mag))}
        ELSE {Outcome(WrapInt64(p.neg, mag), TRUE, FALSE),
              Outcome(WrapInt64(p.neg, mag), TRUE, TRUE)}

(***************************************************************************)
(* class Fps                                                                *)
(***************************************************************************)
\* 1e9f
F1e9 == Fin(0, 15625000, 6)

\* 0.001f
FMilli == Fin(0, 8589935, -33)

\* Fps(float frequency, nsecs_t period)
Fps(frequency, period) == [mFrequency |-> frequency, mPeriod |-> period]

\* constexpr Fps() = default
FpsDefault == Fps(FZero, Nsecs(FALSE, <<>>))

\* the conversion rounding to the nearest integer instead of truncating
RoundCastNsecs(x) ==
    { IF o.ub \/ ~AtLeastHalf(Fraction(x)) THEN o
      ELSE Defined(Nsecs(FALSE, BigAdd(o.val.mag, <<1>>))) : o \in StaticCastNsecs(x) }

fromValueRounded(frequency) ==
    IF FLt(FZero, frequency)
    THEN {Outcome(Fps(frequency, o.val), o.ub, o.trap) :
              o \in RoundCastNsecs(FDiv(F1e9, frequency))}
    ELSE {Defined(FpsDefault)}

fromValue(frequency) ==
    IF FLt(FZero, frequency)
    THEN {Outcome(Fps(frequency, o.val), o.ub, o.trap) :
              o \in StaticCastNsecs(FDiv(F1e9, frequency))}
    ELSE {Defined(FpsDefault)}

NsPositive(period) == ~period.neg /\ period.mag # <<>>

\* without the guard on the period
fromPeriodNsecsUnguarded(period) == Fps(FDiv(F1e9, FloatOfNsecs(period)), period)

\* with `period >= 0` as the guard
fromPeriodNsecsNonNegative(period) ==
    IF ~period.neg
    THEN Fps(FDiv(F1e9, FloatOfNsecs(period)), period)
    ELSE FpsDefault

fromPeriodNsecs(period) ==
    IF NsPositive(period)
    THEN Fps(FDiv(F1e9, FloatOfNsecs(period)), period)
    ELSE FpsDefault

isValid(fps) == FLt(FZero, fps.mFrequency)

getValue(fps) == fps.mFrequency

getPeriodNsecs(fps) == fps.mPeriod

\* operator""_Hz(unsigned long long): static_cast<float> of the integer
HzInteger(n) == fromValue(FloatOfScaled(0, n, 0))

\* operator""_Hz(long double): static_cast<float> of m * 2^e
HzFloating(m, e) == fromValue(FloatOfScaled(0, m, e))

isStrictlyLess(lhs, rhs) == FLt(getValue(lhs), getValue(rhs))

\* without std::abs
isApproxEqualSigned(lhs, rhs) == FLt(FSub(getValue(lhs), getValue(rhs)), FMilli)

isApproxEqual(lhs, rhs) == FLt(FAbs(FSub(getValue(lhs), getValue(rhs))), FMilli)

\* without the tolerance
isApproxLessExact(lhs, rhs) == isStrictlyLess(lhs, rhs)

isApproxLess(lhs, rhs) == isStrictlyLess(lhs, rhs) /\ ~isApproxEqual(lhs, rhs)

\* namespace fps_approx_ops
OpEq(lhs, rhs) == isApproxEqual(lhs, rhs)

OpLt(lhs, rhs) == isApproxLess(lhs, rhs)

OpNe(lhs, rhs) == ~isApproxEqual(lhs, rhs)

OpGt(lhs, rhs) == isApproxLess(rhs, lhs)

OpLe(lhs, rhs) == ~isApproxLess(rhs, lhs)

OpGe(lhs, rhs) == ~isApproxLess(lhs, rhs)

\* 0.00001 (a double): 5902958103587057 * 2^-69
EpsMant == BigAdd(BigMul(BigOfNat(5902958), BigOfNat(1000000000)), BigOfNat(103587057))

EpsExp == -69

\* x > 0.00001 for a finite float x >= 0, exactly
AboveEps(x) ==
    IF x.e >= EpsExp THEN BigLt(EpsMant, BigShl(BigOfNat(x.m), x.e - EpsExp))
    ELSE BigLt(BigShl(EpsMant, EpsExp - x.e), BigOfNat(x.m))

\* std::ceil(q - 0.00001) for a finite float q >= 0, as a natural.  q is
\* promoted to double exactly; the double difference is rounded, but q sits
\* on the float grid and 0.00001 does not, so the difference is never within
\* a rounding error of an integer and its ceiling is that of the exact one.
\* A difference in (-1, 0] has ceiling -0.0, which converts to 0.
CeilMinusEps(q) ==
    IF AboveEps(Fraction(q)) THEN BigAdd(BigTrunc(q), <<1>>) ELSE BigTrunc(q)

\* static_cast<unsigned>(double) of std::ceil's result.  Outside the range
\* of unsigned it is undefined behaviour: cvttsd2si keeps the low 32 bits
\* (0 beyond 64 bits), fcvtzu saturates (0 for a NaN).
StaticCastUnsigned(q) ==
    IF IsFinite(q) /\ BigLe(CeilMinusEps(q), UintMax)
    THEN {Defined(CeilMinusEps(q))}
    ELSE IF q.k = "nan" THEN {Outcome(<<>>, TRUE, FALSE)}
    ELSE IF q.k = "inf" THEN {Outcome(<<>>, TRUE, FALSE), Outcome(UintMax, TRUE, FALSE)}
    ELSE {Outcome(IF BigLt(CeilMinusEps(q), BigPow2(63))
                  THEN BigLowBits(CeilMinusEps(q), 32) ELSE <<>>, TRUE, FALSE),
          Outcome(UintMax, TRUE, FALSE)}

\* fps_approx_ops::operator/(Fps, Fps)
OpDivFps(lhs, rhs) == StaticCastUnsigned(FDiv(getValue(lhs), getValue(rhs)))

\* operator/(Fps, unsigned)
OpDivUnsigned(fps, divisor) ==
    {Outcome(fromPeriodNsecs(o.val), o.ub, o.trap) :
         o \in MulNsecs(getPeriodNsecs(fps), divisor)}

(***************************************************************************)
(* struct FpsRange, struct FpsRanges                                        *)
(***************************************************************************)
FpsRange(min, max) == [min |-> min, max |-> max]

\* std::numeric_limits<float>::max()
FloatMax == Fin(0, 2^MantBits - 1, MaxExp)

\* the default member initializers; neither conversion is out of range
FpsRangeDefaultMin == (CHOOSE o \in fromValue(FZero) : TRUE).val

FpsRangeDefaultMax == (CHOOSE o \in fromValue(FloatMax) : TRUE).val

FpsRangeDefault == FpsRange(FpsRangeDefaultMin, FpsRangeDefaultMax)

\* with the upper bound exclusive
includesFpsExclusive(range, fps) == OpLe(range.min, fps) /\ OpLt(fps, range.max)

\* comparing the range's max with the other's min
includesRangeMinOnly(range, other) ==
    OpLe(range.min, other.min) /\ OpGe(range.max, other.min)

includesFps(range, fps) == OpLe(range.min, fps) /\ OpLe(fps, range.max)

includesRange(range, other) == OpLe(range.min, other.min) /\ OpGe(range.max, other.max)

FpsRanges(physical, render) == [physical |-> physical, render |-> render]

valid(ranges) == OpGe(ranges.physical.max, ranges.render.max)

OpEqRange(lhs, rhs) == isApproxEqual(lhs.min, rhs.min) /\ isApproxEqual(lhs.max, rhs.max)

OpNeRange(lhs, rhs) == ~OpEqRange(lhs, rhs)

(***************************************************************************)
(* Inputs.  Floats are written as Fin(sign, significand, exponent).         *)
(***************************************************************************)
\* how many times operator/(Fps, unsigned) is applied in a row
MaxDivisions == 2

\* how many values 0.0009 Hz apart follow 60 Hz
NearSteps == 2

\* n Hz for a natural n
Hz(n) == FloatOfScaled(0, BigOfNat(n), 0)

\* 60 Hz + j * 236 ulp: 60, 60.0009, 60.0018, ...
NearSixty(j) == Fin(0, 15728640 + 236 * j, -18)

\* 23 * 2^-37 Hz (1.67e-10): its period, 5.98e18 ns, still fits int64_t
FTiny == Fin(0, 12058624, -56)

\* the float below 0.001f, and the float above it
FMilliPred == Fin(0, 8589934, -33)

FMilliSucc == Fin(0, 8589936, -33)

\* arguments of fromValue
Frequencies ==
    { Fin(1, 15728640, -18),     \* -60
      FZero,
      Fin(0, 1, MinExp),         \* the least subnormal: 1e9f / f is infinite
      Fin(0, 14411519, -57),     \* 1e-10: 1e9f / f is 1e19, beyond int64_t
      FTiny, FMilliPred, FMilli, FMilliSucc,
      Fin(0, 8388608, -25),      \* 0.25
      Fin(0, 12570329, -19),     \* 23.976
      Hz(24), Hz(30),
      Fin(0, 15712911, -18),     \* 59.94
      Hz(60), Hz(90), Hz(120), Hz(144), Hz(240), Hz(1000),
      F1e9,
      Fin(0, 15625001, 6),       \* the float above 1e9
      Fin(0, 15625000, 7),       \* 2e9
      FloatMax }

\* arguments of fromPeriodNsecs
Periods ==
    { Int64Min, Nsecs(TRUE, BigOfNat(16666667)), Nsecs(TRUE, <<1>>),
      NsecsOfNat(0), NsecsOfNat(1), NsecsOfNat(4166667), NsecsOfNat(8333333),
      NsecsOfNat(11111111), NsecsOfNat(16666666), NsecsOfNat(16666667),
      NsecsOfNat(1000000000), Nsecs(FALSE, BigPow2(31)), Nsecs(FALSE, BigPow2(62)),
      Int64Max }

\* integer _Hz literals: 0, 60, 120, 2^24 + 1 (not a float), 2^64 - 1
IntegerLiterals ==
    { <<>>, BigOfNat(60), BigOfNat(120), BigOfNat(16777217),
      BigSub(BigPow2(64), <<1>>) }

\* a natural from its decimal digits, nine at a time
BigOfDigits(hi, mid, lo) ==
    BigAdd(BigMul(BigAdd(BigMul(BigOfNat(hi), BigOfNat(1000000000)), BigOfNat(mid)),
                  BigOfNat(1000000000)), BigOfNat(lo))

\* floating _Hz literals as long double m * 2^e: 0.0, 0.5, 23.976, 59.94, 60.0
FloatingLiterals ==
    { <<<<>>, 0>>,
      <<BigPow2(63), -64>>,
      <<BigOfDigits(13, 821222997, 226881548), -59>>,
      <<BigOfDigits(17, 276528746, 533601935), -58>>,
      <<BigOfDigits(17, 293822569, 102704640), -58>> }

\* divisors of operator/(Fps, unsigned)
Divisors == { <<>>, <<1>>, <<2>>, <<3>>, BigOfNat(1000), UintMax }

(***************************************************************************)
(* The client's state: the Fps and the FpsRange objects it holds, the       *)
(* operands of the comparisons, and the latest call with its arguments and  *)
(* result.                                                                  *)
(***************************************************************************)
VARIABLES fps, range, other, lhs, rhs, third, call, ndiv

vars == <<fps, range, other, lhs, rhs, third, call, ndiv>>

NoCall == [op |-> "none", ub |-> FALSE, trap |-> FALSE]

\* a trapped build has aborted the process
Running == ~call.trap

(***************************************************************************)
(* Construction and conversion: Fps(), fromValue, fromPeriodNsecs, the      *)
(* literals, operator/(Fps, unsigned).                                      *)
(***************************************************************************)
Init ==
    /\ fps = FpsDefault
    /\ range = FpsRangeDefault
    /\ other = FpsRangeDefault
    /\ lhs = FpsDefault
    /\ rhs = FpsDefault
    /\ third = FpsDefault
    /\ call = NoCall
    /\ ndiv = 0

DefaultConstruct ==
    /\ Running
    /\ fps' = FpsDefault
    /\ call' = [op |-> "Fps", ub |-> FALSE, trap |-> FALSE]
    /\ ndiv' = 0
    /\ UNCHANGED <<range, other, lhs, rhs, third>>

CallFromValue ==
    /\ Running
    /\ \E frequency \in Frequencies : \E o \in fromValue(frequency) :
          /\ fps' = o.val
          /\ call' = [op |-> "fromValue", frequency |-> frequency,
                      ub |-> o.ub, trap |-> o.trap]
    /\ ndiv' = 0
    /\ UNCHANGED <<range, other, lhs, rhs, third>>

CallFromPeriodNsecs ==
    /\ Running
    /\ \E period \in Periods :
          /\ fps' = fromPeriodNsecs(period)
          /\ call' = [op |-> "fromPeriodNsecs", period |-> period,
                      ub |-> FALSE, trap |-> FALSE]
    /\ ndiv' = 0
    /\ UNCHANGED <<range, other, lhs, rhs, third>>

CallHzInteger ==
    /\ Running
    /\ \E n \in IntegerLiterals : \E o \in HzInteger(n) :
          /\ fps' = o.val
          /\ call' = [op |-> "_Hz", literal |-> <<n, 0>>, ub |-> o.ub, trap |-> o.trap]
    /\ ndiv' = 0
    /\ UNCHANGED <<range, other, lhs, rhs, third>>

CallHzFloating ==
    /\ Running
    /\ \E x \in FloatingLiterals : \E o \in HzFloating(x[1], x[2]) :
          /\ fps' = o.val
          /\ call' = [op |-> "_Hz", literal |-> x, ub |-> o.ub, trap |-> o.trap]
    /\ ndiv' = 0
    /\ UNCHANGED <<range, other, lhs, rhs, third>>

\* fps = fps / divisor
CallDivUnsigned ==
    /\ Running
    /\ ndiv < MaxDivisions
    /\ \E divisor \in Divisors : \E o \in OpDivUnsigned(fps, divisor) :
          /\ fps' = IF o.trap THEN fps ELSE o.val
          /\ call' = [op |-> "operator/(Fps, unsigned)", self |-> fps,
                      divisor |-> divisor, ub |-> o.ub, trap |-> o.trap]
    /\ ndiv' = ndiv + 1
    /\ UNCHANGED <<range, other, lhs, rhs, third>>

Next ==
    \/ DefaultConstruct
    \/ CallFromPeriodNsecs
    \/ CallFromValue
    \/ CallHzInteger
    \/ CallHzFloating
    \/ CallDivUnsigned

Spec == Init /\ [][Next]_vars

(***************************************************************************)
(* Comparison: the relational helpers, the fps_approx_ops operators and     *)
(* operator/(Fps, Fps), applied to operands built by fromValue and          *)
(* fromPeriodNsecs.                                                         *)
(***************************************************************************)
\* the value of a call that cannot run into undefined behaviour
Value(frequency) == (CHOOSE o \in fromValue(frequency) : TRUE).val

OperandFrequencies ==
    { FZero, FTiny, FMilliPred, FMilli, FMilliSucc, Hz(24), Hz(30),
      Fin(0, 15728771, -18),     \* 60.0005
      Hz(90), Hz(120), FloatMax }
    \cup { NearSixty(j) : j \in 0..NearSteps }

Operands ==
    { Value(f) : f \in OperandFrequencies } \cup { fromPeriodNsecs(NsecsOfNat(16666667)) }

Thirds == { Value(NearSixty(j)) : j \in 0..NearSteps }

InitCompare ==
    /\ fps = FpsDefault
    /\ range = FpsRangeDefault
    /\ other = FpsRangeDefault
    /\ lhs \in Operands
    /\ rhs \in Operands
    /\ third \in Thirds
    /\ call = NoCall
    /\ ndiv = 0

Predicate(op, args, flag) ==
    [op |-> op, args |-> args, flag |-> flag, ub |-> FALSE, trap |-> FALSE]

\* a call leaves the objects it is given as they are
objects == <<fps, range, other, lhs, rhs, third, ndiv>>

CallIsStrictlyLess ==
    /\ call = NoCall
    /\ call' = Predicate("isStrictlyLess", <<lhs, rhs>>, isStrictlyLess(lhs, rhs))
    /\ UNCHANGED objects

CallIsApproxEqual ==
    /\ call = NoCall
    /\ \E x \in {lhs, rhs, third} : \E y \in {lhs, rhs, third} :
          call' = Predicate("isApproxEqual", <<x, y>>, isApproxEqual(x, y))
    /\ UNCHANGED objects

CallIsApproxLess ==
    /\ call = NoCall
    /\ call' = Predicate("isApproxLess", <<lhs, rhs>>, isApproxLess(lhs, rhs))
    /\ UNCHANGED objects

CallOpEq ==
    /\ call = NoCall
    /\ call' = Predicate("operator==", <<lhs, rhs>>, OpEq(lhs, rhs))
    /\ UNCHANGED objects

CallOpNe ==
    /\ call = NoCall
    /\ call' = Predicate("operator!=", <<lhs, rhs>>, OpNe(lhs, rhs))
    /\ UNCHANGED objects

CallOpLt ==
    /\ call = NoCall
    /\ call' = Predicate("operator<", <<lhs, rhs>>, OpLt(lhs, rhs))
    /\ UNCHANGED objects

CallOpGt ==
    /\ call = NoCall
    /\ call' = Predicate("operator>", <<lhs, rhs>>, OpGt(lhs, rhs))
    /\ UNCHANGED objects

CallOpLe ==
    /\ call = NoCall
    /\ call' = Predicate("operator<=", <<lhs, rhs>>, OpLe(lhs, rhs))
    /\ UNCHANGED objects

CallOpGe ==
    /\ call = NoCall
    /\ call' = Predicate("operator>=", <<lhs, rhs>>, OpGe(lhs, rhs))
    /\ UNCHANGED objects

\* FpsRange{lhs, rhs}.includes(third)
CallIncludesOperand ==
    /\ call = NoCall
    /\ call' = Predicate("FpsRange::includes(Fps)", <<lhs, rhs, third>>,
                         includesFps(FpsRange(lhs, rhs), third))
    /\ UNCHANGED objects

\* FpsRanges{{third, lhs}, {third, rhs}}.valid()
CallValidOperands ==
    /\ call = NoCall
    /\ call' = Predicate("FpsRanges::valid", <<lhs, rhs>>,
                         valid(FpsRanges(FpsRange(third, lhs), FpsRange(third, rhs))))
    /\ UNCHANGED objects

\* lhs / rhs
CallOpDivFps ==
    /\ call = NoCall
    /\ \E o \in OpDivFps(lhs, rhs) :
          call' = [op |-> "operator/(Fps, Fps)", args |-> <<lhs, rhs>>,
                   count |-> o.val, ub |-> o.ub, trap |-> o.trap]
    /\ UNCHANGED objects

\* lhs / divisor
CallDivOperand ==
    /\ call = NoCall
    /\ \E divisor \in Divisors : \E o \in OpDivUnsigned(lhs, divisor) :
          call' = [op |-> "operator/(Fps, unsigned)", args |-> <<lhs>>,
                   divisor |-> divisor, val |-> o.val, ub |-> o.ub, trap |-> o.trap]
    /\ UNCHANGED objects

NextCompare ==
    \/ CallIsStrictlyLess
    \/ CallIsApproxEqual
    \/ CallIsApproxLess
    \/ CallOpEq
    \/ CallOpNe
    \/ CallOpLt
    \/ CallOpGt
    \/ CallOpLe
    \/ CallOpGe
    \/ CallIncludesOperand
    \/ CallValidOperands
    \/ CallOpDivFps
    \/ CallDivOperand

SpecCompare == InitCompare /\ [][NextCompare]_vars

(***************************************************************************)
(* Ranges: FpsRange::includes, FpsRanges::valid and the range equality.     *)
(***************************************************************************)
RangeBounds ==
    { FpsDefault, Value(Hz(24)), Value(Hz(90)) }
    \cup { Value(NearSixty(j)) : j \in 0..NearSteps }

\* the default range, and every pair of bounds, those with min > max too
Ranges ==
    { FpsRangeDefault }
    \cup { FpsRange(min, max) : min \in RangeBounds, max \in RangeBounds }

RangeOperands ==
    { FpsDefault, Value(Hz(24)), Value(Hz(30)), Value(Hz(90)), Value(Hz(120)),
      FpsRangeDefaultMax }
    \cup { Value(NearSixty(j)) : j \in 0..NearSteps }

InitRange ==
    /\ fps \in RangeOperands
    /\ range \in Ranges
    /\ other \in Ranges
    /\ lhs = FpsDefault
    /\ rhs = FpsDefault
    /\ third = FpsDefault
    /\ call = NoCall
    /\ ndiv = 0

CallIncludesFps ==
    /\ call = NoCall
    /\ \E self \in {range, other} :
          call' = [op |-> "FpsRange::includes(Fps)", self |-> self, fps |-> fps,
                   flag |-> includesFps(self, fps), ub |-> FALSE, trap |-> FALSE]
    /\ UNCHANGED objects

CallIncludesRange ==
    /\ call = NoCall
    /\ call' = [op |-> "FpsRange::includes(FpsRange)", self |-> range, arg |-> other,
                flag |-> includesRange(range, other), ub |-> FALSE, trap |-> FALSE]
    /\ UNCHANGED objects

CallValid ==
    /\ call = NoCall
    /\ call' = [op |-> "FpsRanges::valid", self |-> FpsRanges(range, other),
                flag |-> valid(FpsRanges(range, other)), ub |-> FALSE, trap |-> FALSE]
    /\ UNCHANGED objects

CallOpEqRange ==
    /\ call = NoCall
    /\ call' = [op |-> "operator==(FpsRange)", self |-> range, arg |-> other,
                flag |-> OpEqRange(range, other), ub |-> FALSE, trap |-> FALSE]
    /\ UNCHANGED objects

CallOpNeRange ==
    /\ call = NoCall
    /\ call' = [op |-> "operator!=(FpsRange)", self |-> range, arg |-> other,
                flag |-> OpNeRange(range, other), ub |-> FALSE, trap |-> FALSE]
    /\ UNCHANGED objects

NextRange ==
    \/ CallIncludesFps
    \/ CallIncludesRange
    \/ CallValid
    \/ CallOpEqRange
    \/ CallOpNeRange

SpecRange == InitRange /\ [][NextRange]_vars

(***************************************************************************)
(* Properties of construction and conversion, under Spec.                   *)
(***************************************************************************)
\* n is an integer nearest to 1e9 / f for a finite float f > 0, exactly:
\* |2 n f - 2e9| <= f
IsNearestToReciprocal(n, f) ==
    LET up == Max(f.e, 0)
        down == Max(-f.e, 0)
        twoNF == BigShl(BigMul(n, BigOfNat(2 * f.m)), up)
        twoE9 == BigShl(BigOfNat(2000000000), down)
        ff == BigShl(BigOfNat(f.m), up)
    IN  BigLe(twoNF, BigAdd(twoE9, ff)) /\ BigLe(twoE9, BigAdd(twoNF, ff))

(* C1, as stated: for every positive frequency f, fromValue(f) has the     *)
(* period round(1e9 / f), the reciprocal rounded to the nearest integer     *)
(* nanosecond (here only where the conversion to nsecs_t is defined).       *)
C1_PeriodIsRoundedReciprocal ==
    (call.op = "fromValue" /\ FLt(FZero, call.frequency) /\ ~call.ub)
        => /\ ~getPeriodNsecs(fps).neg
           /\ IsNearestToReciprocal(getPeriodNsecs(fps).mag, call.frequency)

(* C1, amended: for every positive frequency f, fromValue(f) keeps f and    *)
(* has as period the single-precision quotient 1e9f / f truncated toward    *)
(* zero, whenever that quotient is below 2^63; a quotient of 2^63 or more   *)
(* (or an infinite one) is exactly when the conversion is undefined.        *)
C1_PeriodIsTruncatedFloatQuotient ==
    (call.op = "fromValue" /\ FLt(FZero, call.frequency))
        => LET q == FDiv(F1e9, call.frequency)
               p == getPeriodNsecs(fps)
               fits == IsFinite(q) /\ FloatLtBig(q, BigPow2(63))
           IN  /\ getValue(fps) = call.frequency
               /\ call.ub = ~fits
               /\ fits => /\ ~p.neg
                          /\ BigLeFloat(p.mag, q)
                          /\ FloatLtBig(q, BigAdd(p.mag, <<1>>))

\* fromValue(240 Hz): 1e9f / 240 is 4166666.75, and the period 4166666
C1_TruncatedAt240Hz ==
    /\ call.op = "fromValue"
    /\ call.frequency = Hz(240)
    /\ FDiv(F1e9, call.frequency) = Fin(0, 16666667, -2)
    /\ getPeriodNsecs(fps) = NsecsOfNat(4166666)

\* the Fps objects the client holds
Held == {fps, range.min, range.max}

(* C2, as stated: every Fps obtainable through the public interface has    *)
(* getPeriodNsecs() == 0 if and only if isValid() is false.                 *)
C2_ZeroPeriodIffInvalid ==
    \A x \in Held : (getPeriodNsecs(x) = NsecsOfNat(0)) <=> ~isValid(x)

(* C2, amended: every Fps obtainable through the public interface has       *)
(* getPeriodNsecs() == 0 if isValid() is false; a valid Fps has period 0    *)
(* exactly when its frequency exceeds 1e9 Hz, as FpsRange's default max.    *)
C2_InvalidHasZeroPeriod ==
    \A x \in Held :
        /\ ~isValid(x) => getPeriodNsecs(x) = NsecsOfNat(0)
        /\ isValid(x) => ((getPeriodNsecs(x) = NsecsOfNat(0)) <=> FLt(F1e9, getValue(x)))

\* a valid Fps with period 0 returned by fromValue
C2_ValidWithZeroPeriod ==
    /\ call.op = "fromValue"
    /\ isValid(fps)
    /\ getPeriodNsecs(fps) = NsecsOfNat(0)
    /\ range.max = fps

(* C3: for every integer period p, fromPeriodNsecs(p) is valid with period  *)
(* exactly p if p > 0, and is invalid with value 0 and period 0 if p <= 0.  *)
C3_FromPeriodNsecs ==
    call.op = "fromPeriodNsecs"
        => IF NsPositive(call.period)
           THEN isValid(fps) /\ getPeriodNsecs(fps) = call.period
           ELSE /\ ~isValid(fps)
                /\ getValue(fps) = FZero
                /\ getPeriodNsecs(fps) = NsecsOfNat(0)

\* fromPeriodNsecs(INT64_MAX): valid, with that period
C3_LargestPeriod ==
    /\ call.op = "fromPeriodNsecs"
    /\ call.period = Int64Max
    /\ isValid(fps)
    /\ getPeriodNsecs(fps) = Int64Max

(* C7: for every Fps fps and every positive divisor, fps / divisor has as   *)
(* period exactly the product fps.getPeriodNsecs() * divisor, and is valid  *)
(* whenever fps has a positive period (here for the calls that return, on   *)
(* an fps whose period is not negative).                                    *)
C7_PeriodIsExactProduct ==
    (/\ call.op = "operator/(Fps, unsigned)"
     /\ call.divisor # <<>>
     /\ ~getPeriodNsecs(call.self).neg
     /\ ~call.trap)
        => /\ getPeriodNsecs(fps)
                = Nsecs(FALSE, BigMul(getPeriodNsecs(call.self).mag, call.divisor))
           /\ NsPositive(getPeriodNsecs(call.self)) => isValid(fps)

(***************************************************************************)
(* Properties of the comparisons and of operator/(Fps, Fps), under          *)
(* SpecCompare.                                                             *)
(***************************************************************************)
(* C4: every operation returns a defined result when an operand is the      *)
(* invalid sentinel (frequency 0, period 0), which compares as the value 0. *)
C4_TotalOnSentinel ==
    (call.op # "none" /\ \E i \in DOMAIN call.args : call.args[i] = FpsDefault)
        => /\ ~call.ub
           /\ ~call.trap
           /\ (call.op = "isStrictlyLess" /\ call.args[1] = FpsDefault)
                  => call.flag = isValid(call.args[2])

(* C5: isApproxEqual is reflexive and symmetric.  (That it is not           *)
(* transitive is a state: C5_NotTransitive.)                                *)
C5_ReflexiveSymmetric ==
    call.op = "isApproxEqual"
        => /\ call.args[1] = call.args[2] => call.flag
           /\ call.flag = isApproxEqual(call.args[2], call.args[1])

\* 60 Hz, 60.0009 Hz, 60.0018 Hz: the neighbours are approximately equal,
\* the ends are not
C5_NotTransitive ==
    /\ call.op = "isApproxEqual"
    /\ lhs = Value(NearSixty(0))
    /\ rhs = Value(NearSixty(1))
    /\ third = Value(NearSixty(2))
    /\ call.args = <<lhs, third>>
    /\ ~call.flag
    /\ isApproxEqual(lhs, rhs)
    /\ isApproxEqual(rhs, third)

\* x > 0.001 for a float x, exactly: 1000 * m * 2^e > 1
ExceedsMilli(x) ==
    IF x.k = "nan" \/ x.s = 1 THEN FALSE
    ELSE IF x.k = "inf" THEN TRUE
    ELSE IF x.e >= 0 THEN x.m # 0
    ELSE BigLt(BigPow2(-x.e), BigMul(BigOfNat(1000), BigOfNat(x.m)))

(* C6: isApproxLess(a, b) is true only if a.getValue() < b.getValue() and  *)
(* the gap b.getValue() - a.getValue() (the float difference) exceeds       *)
(* 0.001; whenever the gap is at most 0.001 it is false.                    *)
C6_ApproxLessNeedsGap ==
    call.op = "isApproxLess"
        => LET a == call.args[1]
               b == call.args[2]
               gap == FSub(getValue(b), getValue(a))
           IN  /\ call.flag => FLt(getValue(a), getValue(b)) /\ ExceedsMilli(gap)
               /\ ~ExceedsMilli(gap) => ~call.flag

\* 60 Hz against 60.0005 Hz: strictly less, approximately equal, not
\* approximately less
C6_WithinTolerance ==
    /\ call.op = "isApproxLess"
    /\ call.args = <<Value(Hz(60)), Value(Fin(0, 15728771, -18))>>
    /\ isStrictlyLess(call.args[1], call.args[2])
    /\ isApproxEqual(call.args[1], call.args[2])
    /\ ~call.flag

\* n is the least integer with n >= q - 0.00001, for a float q >= 0, exactly
IsCeilMinusEps(n, q) ==
    /\ IsFinite(q)
    /\ LET scale == Max(-q.e, -EpsExp)
           qs == BigShl(BigOfNat(q.m), q.e + scale)
           es == BigShl(EpsMant, EpsExp + scale)
           ns == BigShl(n, scale)
       IN  /\ BigLe(qs, BigAdd(ns, es))
           /\ BigLt(BigAdd(ns, es), BigAdd(qs, BigPow2(scale)))

(* C8: for all valid Fps a, b, operator/(a, b) returns                      *)
(* ceil(a.getValue() / b.getValue() - 1e-5), the least integer n with       *)
(* n >= a / b - 1e-5; 120 / 60 == 2 and 90 / 60 == 2.                       *)
C8_CeilOfRatio ==
    (call.op = "operator/(Fps, Fps)" /\ isValid(call.args[1]) /\ isValid(call.args[2]))
        => /\ IsCeilMinusEps(call.count, FDiv(getValue(call.args[1]), getValue(call.args[2])))
           /\ call.args = <<Value(Hz(120)), Value(Hz(60))>> => call.count = <<2>>
           /\ call.args = <<Value(Hz(90)), Value(Hz(60))>> => call.count = <<2>>

(***************************************************************************)
(* Properties of the ranges, under SpecRange.                               *)
(***************************************************************************)
(* C9, as stated: includes(FpsRange other) returns (min <= other.min and    *)
(* max >= other.max) under the approximate operators, and whenever          *)
(* r.includes(other) and other.includes(f) then r.includes(f).              *)
C9_IncludesRangeIsContainment ==
    call.op = "FpsRange::includes(FpsRange)"
        => /\ call.flag = (OpLe(range.min, other.min) /\ OpGe(range.max, other.max))
           /\ (call.flag /\ includesFps(other, fps)) => includesFps(range, fps)

(* C9, amended: includes(FpsRange other) returns (min <= other.min and      *)
(* max >= other.max) under the approximate operators, and whenever          *)
(* r.includes(other) and f lies within other exactly (neither               *)
(* isStrictlyLess(f, other.min) nor isStrictlyLess(other.max, f)) then      *)
(* r.includes(f).                                                           *)
C9_IncludesRangeContainsExactMembers ==
    call.op = "FpsRange::includes(FpsRange)"
        => /\ call.flag = (OpLe(range.min, other.min) /\ OpGe(range.max, other.max))
           /\ (/\ call.flag
               /\ ~isStrictlyLess(fps, other.min)
               /\ ~isStrictlyLess(other.max, fps)) => includesFps(range, fps)

\* [60.0009, 90] includes [60, 90] within the tolerance, and so includes 60
C9_ContainedWithinTolerance ==
    /\ call.op = "FpsRange::includes(FpsRange)"
    /\ call.flag
    /\ range = FpsRange(Value(NearSixty(1)), Value(Hz(90)))
    /\ other = FpsRange(Value(NearSixty(0)), Value(Hz(90)))
    /\ fps = other.min
    /\ isStrictlyLess(fps, range.min)
    /\ includesFps(range, fps)

(* C10: r.includes(f) is true exactly when neither isApproxLess(f, min)     *)
(* nor isApproxLess(max, f), also for a range with min > max; every f with  *)
(* min.getValue() <= f.getValue() <= max.getValue() is included; [24, 60]   *)
(* includes 30 and not 90; the default range includes every Fps.            *)
C10_IncludesFps ==
    call.op = "FpsRange::includes(Fps)"
        => LET r == call.self
               f == call.fps
           IN  /\ call.flag = (~isApproxLess(f, r.min) /\ ~isApproxLess(r.max, f))
               /\ (FLe(getValue(r.min), getValue(f)) /\ FLe(getValue(f), getValue(r.max)))
                      => call.flag
               /\ r = FpsRange(Value(Hz(24)), Value(Hz(60)))
                      => /\ f = Value(Hz(30)) => call.flag
                         /\ f = Value(Hz(90)) => ~call.flag
               /\ r = FpsRangeDefault => call.flag

\* [60.0009, 60], a range with min > max, includes 60.0009 Hz
C10_InvertedRangeIncludes ==
    /\ call.op = "FpsRange::includes(Fps)"
    /\ call.self = FpsRange(Value(NearSixty(1)), Value(NearSixty(0)))
    /\ isStrictlyLess(call.self.max, call.self.min)
    /\ call.fps = call.self.min
    /\ call.flag

====
